---- MODULE Spec2Model ----
(***************************************************************************)
(* Model of safe_recursive_extract.py: the nested-archive extractor with   *)
(* its path-traversal guard, its completion log and its bounded passes.    *)
(*                                                                         *)
(* Representation.                                                         *)
(*   - A file name is the sequence of its dot-separated segments:          *)
(*     "b.tar.gz" is <<"b","tar","gz">>, ".gz" is <<"","gz">>, ".." is     *)
(*     <<"","","">>, "." is <<"","">> and the empty name is <<"">>.        *)
(*     name + ".extracted" is Append(name, "extracted").                   *)
(*   - A path is the sequence of its components from the root; <<>> is     *)
(*     the root directory.                                                 *)
(*   - A tar member name is [root, parts]: root is the leading root        *)
(*     marker ("" when there is none), parts the "/"-separated components. *)
(*   - The file system holds directories and regular files only: the       *)
(*     extractor never creates a link, so resolve() is the lexical         *)
(*     normalisation of a path.                                            *)
(***************************************************************************)
EXTENDS Integers, Sequences, FiniteSets, TLC

VARIABLES
  fs,        \* the file system: path -> node, the root directory left implicit
  inp,       \* args.input of the runs (one input for the whole behaviour)
  maxDepth,  \* args.max_depth of the current run
  pc,        \* position of main(): "idle", "top", "pass", "work"
  done,      \* main's in-memory completion set of the current run
  depth,     \* main's loop variable of "for depth in range(1, max_depth + 1)"
  cands,     \* the candidates of the current pass not yet iterated over
  newWork,   \* main's new_work flag
  runs,      \* number of runs started so far
  calls,     \* history: every call of extract_tar_safely / gunzip_to_file
  touched,   \* history: every path the runs created or wrote
  finals,    \* history: how each run ended
  begun,     \* history: what the current run loaded when it started
  smp,       \* safe_member_path applied to a drawn input (SpecSMP)
  pure       \* unique_dir, gunzip_to_file or the classification of a name
             \* applied to a drawn input (SpecPure)

mainVars == <<fs, inp, maxDepth, pc, done, depth, cands, newWork, runs, calls,
              touched, finals, begun>>
vars == <<fs, inp, maxDepth, pc, done, depth, cands, newWork, runs, calls,
          touched, finals, begun, smp, pure>>

\* ------------------------------------------------------------------ bounds
\* longest member name (in components) drawn for safe_member_path
MaxParts == 3

\* ------------------------------------------------------------------- names
DotDot == <<"", "", "">>
Dot == <<"", "">>
EmptyName == <<"">>

\* str.lower() on the segments the model uses
Lower(s) ==
  CASE s = "TAR" -> "tar"
    [] s = "Tar" -> "tar"
    [] s = "GZ" -> "gz"
    [] s = "Gz" -> "gz"
    [] s = "TGZ" -> "tgz"
    [] s = "X" -> "x"
    [] OTHER -> s

\* name.lower().endswith("." + s1)
EndsWith1(name, s1) ==
  /\ Len(name) >= 2
  /\ Lower(name[Len(name)]) = s1

\* name.lower().endswith("." + s1 + "." + s2)
EndsWith2(name, s1, s2) ==
  /\ Len(name) >= 3
  /\ Lower(name[Len(name) - 1]) = s1
  /\ Lower(name[Len(name)]) = s2

\* the last component of a path (Path.name); the root has the empty name
NameOf(p) == IF Len(p) = 0 THEN EmptyName ELSE p[Len(p)]

is_tarish(p) ==
  \/ EndsWith1(NameOf(p), "tar")
  \/ EndsWith1(NameOf(p), "tgz")
  \/ EndsWith2(NameOf(p), "tar", "gz")

\* the test without its "not .tar.gz" half
IsPlainGzAnyGz(p) == EndsWith1(NameOf(p), "gz")

is_plain_gz(p) ==
  /\ EndsWith1(NameOf(p), "gz")
  /\ ~EndsWith2(NameOf(p), "tar", "gz")

\* ------------------------------------------------------------------- paths
Parent(p) == IF Len(p) = 0 THEN p ELSE SubSeq(p, 1, Len(p) - 1)

\* Path.parents: every proper prefix of p
Parents(p) == {SubSeq(p, 1, i) : i \in 0..(Len(p) - 1)}

\* p is q or below q
Within(q, p) == p = q \/ q \in Parents(p)

RECURSIVE DropDots(_)
\* pathlib drops "." and empty components when it parses a path
DropDots(parts) ==
  IF parts = <<>> THEN <<>>
  ELSE IF Head(parts) \in {Dot, EmptyName} THEN DropDots(Tail(parts))
  ELSE <<Head(parts)>> \o DropDots(Tail(parts))

\* dest_dir / member_name: an absolute member name replaces dest_dir
PathJoin(dest, m) ==
  IF m.root = "/" THEN DropDots(m.parts) ELSE dest \o DropDots(m.parts)

RECURSIVE ResolveFrom(_, _)
ResolveFrom(acc, rest) ==
  IF rest = <<>> THEN acc
  ELSE IF Head(rest) = DotDot THEN ResolveFrom(Parent(acc), Tail(rest))
  ELSE IF Head(rest) \in {Dot, EmptyName} THEN ResolveFrom(acc, Tail(rest))
  ELSE ResolveFrom(Append(acc, Head(rest)), Tail(rest))

\* Path.resolve() on a file system without links: ".." pops, "/.." is "/"
Resolve(p) == ResolveFrom(<<>>, p)

\* ------------------------------------------------------- safe_member_path
\* the containment test without the early absolute-name rejection
SafeMemberPathNoAbsCheck(dest_dir, member_name) ==
  LET out_path == Resolve(PathJoin(dest_dir, member_name))
      dest_resolved == Resolve(dest_dir)
  IN IF dest_resolved = out_path \/ dest_resolved \in Parents(out_path)
     THEN [ok |-> TRUE, path |-> out_path, why |-> "none"]
     ELSE [ok |-> FALSE, path |-> <<>>, why |-> "traversal"]

\* the containment test turned around: dest below out_path is accepted too
SafeMemberPathLoose(dest_dir, member_name) ==
  IF member_name.root # ""
  THEN [ok |-> FALSE, path |-> <<>>, why |-> "absolute"]
  ELSE LET out_path == Resolve(PathJoin(dest_dir, member_name))
           dest_resolved == Resolve(dest_dir)
       IN IF Within(dest_resolved, out_path) \/ Within(out_path, dest_resolved)
          THEN [ok |-> TRUE, path |-> out_path, why |-> "none"]
          ELSE [ok |-> FALSE, path |-> <<>>, why |-> "traversal"]

SafeMemberPath(dest_dir, member_name) ==
  IF member_name.root # ""
  THEN [ok |-> FALSE, path |-> <<>>, why |-> "absolute"]
  ELSE LET out_path == Resolve(PathJoin(dest_dir, member_name))
           dest_resolved == Resolve(dest_dir)
       IN IF dest_resolved = out_path \/ dest_resolved \in Parents(out_path)
          THEN [ok |-> TRUE, path |-> out_path, why |-> "none"]
          ELSE [ok |-> FALSE, path |-> <<>>, why |-> "traversal"]

\* ------------------------------------------------------------- file system
DirNode == [t |-> "dir"]
FileNode(c) == [t |-> "file", c |-> c]

\* what a file holds
Tar(ms) == [k |-> "tar", ms |-> ms]
Gz(c) == [k |-> "gz", of |-> c]
Data(v) == [k |-> "data", v |-> v]
LogText(items) == [k |-> "log", items |-> items]

\* os.stat succeeds: the kernel resolves ".." on the way
Exists(f, p) == Resolve(p) = <<>> \/ Resolve(p) \in DOMAIN f
IsDir(f, p) == p = <<>> \/ (p \in DOMAIN f /\ f[p].t = "dir")
IsFile(f, p) == p \in DOMAIN f /\ f[p].t = "file"

Prefixes(p) == {SubSeq(p, 1, i) : i \in 1..Len(p)}

\* Path.mkdir(parents=True, exist_ok=True); fails when p or one of its
\* ancestors exists and is no directory
Mkdirs(f, p) ==
  LET missing == Prefixes(p) \ DOMAIN f
  IN IF \E q \in Prefixes(p) : q \in DOMAIN f /\ f[q].t # "dir"
     THEN [ok |-> FALSE, fs |-> f, made |-> {}]
     ELSE [ok |-> TRUE, fs |-> [q \in missing |-> DirNode] @@ f, made |-> missing]

\* f"{base}.{i}": the digits become one more segment of the last component
WithSuffix(base, i) == [base EXCEPT ![Len(base)] = Append(@, ToString(i))]

\* a probe that takes base.i without looking whether it exists
FirstFreeFromBlind(f, base, i) == WithSuffix(base, i)

RECURSIVE FirstFreeFrom(_, _, _)
\* the loop "while cand.exists(): i += 1" entered with counter i
FirstFreeFrom(f, base, i) ==
  IF ~Exists(f, WithSuffix(base, i)) THEN WithSuffix(base, i)
  ELSE FirstFreeFrom(f, base, i + 1)

\* the loop started at i = 1
FirstFree(f, base) == FirstFreeFrom(f, base, 1)

\* a unique_dir that hands back base whether it exists or not
UniqueDirReuse(f, base) == base

unique_dir(f, base) == IF ~Exists(f, base) THEN base ELSE FirstFree(f, base)

\* --------------------------------------------------------- extract_tar_safely
\* the member types whose test in line 69 comes before m.issock()
SpecialTypes == {"sym", "lnk", "chr", "blk", "fifo"}

\* the is-methods of tarfile.TarInfo: there is no issock
TarInfoMethods == {"isreg", "isfile", "isdir", "issym", "islnk", "ischr", "isblk",
                   "isfifo", "isdev", "issparse"}

\* line 69: "m.issym() or m.islnk() or m.ischr() or m.isblk() or m.isfifo() or
\* m.issock()" stops at the first true test; a member that passes none of
\* the first five reaches m.issock(), which raises AttributeError
SkipTest(m) ==
  IF m.type \in SpecialTypes THEN "skip"
  ELSE IF "issock" \notin TarInfoMethods THEN "raise"
  ELSE "go"

\* The standard output of a run: verbose is "not args.quiet" (line 140);
\* strict is the error handler of sys.stdout, which the environment sets
\* (strict under a UTF-8 locale, surrogateescape under the C locale).
Stdout(verbose, strict) == [verbose |-> verbose, strict |-> strict]

\* the segments of a member name that hold a byte that is no UTF-8: tarfile
\* decodes it to a lone surrogate, which a strict stdout cannot encode
BadByteSegs == {"l\\xff"}
Printable(mname) ==
  \A i \in 1..Len(mname.parts) :
    \A j \in 1..Len(mname.parts[i]) : mname.parts[i][j] \notin BadByteSegs

\* "if verbose: print(... m.name ...)" (lines 70-71, 83-84, 91-92) raises
PrintRaises(io, mname) == io.verbose /\ io.strict /\ ~Printable(mname)

Wrote(paths, i, t) == {[path |-> q, idx |-> i, t |-> t] : q \in paths}

\* the members tarfile.open(archive, "r:*") reads: a tar, compressed or not
Readable(c) == c.k = "tar" \/ (c.k = "gz" /\ c.of.k = "tar")
MembersOf(c) == IF c.k = "tar" THEN c.ms ELSE c.of.ms

\* one iteration of the write loop that materialises a special member too
WriteMemberNoSkip(f, m, dest_dir, i, io) ==
  LET sp == SafeMemberPath(dest_dir, m.name)
  IN IF ~sp.ok THEN [ok |-> FALSE, fs |-> f, wrote |-> {}, why |-> sp.why]
     ELSE IF m.type = "dir"
     THEN LET mk == Mkdirs(f, sp.path)
          IN [ok |-> mk.ok, fs |-> mk.fs, wrote |-> Wrote(mk.made, i, "dir"),
              why |-> IF mk.ok THEN "none" ELSE "mkdir"]
     ELSE LET mk == Mkdirs(f, Parent(sp.path))
          IN IF ~mk.ok
             THEN [ok |-> FALSE, fs |-> f, wrote |-> {}, why |-> "mkdir"]
             ELSE IF IsDir(mk.fs, sp.path)
             THEN [ok |-> FALSE, fs |-> mk.fs,
                   wrote |-> Wrote(mk.made, i, "dir"), why |-> "open"]
             ELSE [ok |-> TRUE,
                   fs |-> (sp.path :> [t |-> IF m.type = "reg" THEN "file" ELSE m.type,
                                       c |-> m.c]) @@ mk.fs,
                   wrote |-> Wrote(mk.made, i, "dir")
                             \cup Wrote({sp.path}, i,
                                        IF m.type = "reg" THEN "file" ELSE m.type),
                   why |-> "none"]

\* one iteration of the write loop (lines 67-97) for member i
WriteMember(f, m, dest_dir, i, io) ==
  IF SkipTest(m) = "skip"
  THEN IF PrintRaises(io, m.name)
       THEN [ok |-> FALSE, fs |-> f, wrote |-> {}, why |-> "UnicodeEncodeError"]
       ELSE [ok |-> TRUE, fs |-> f, wrote |-> {}, why |-> "none"]
  ELSE IF SkipTest(m) = "raise"
  THEN [ok |-> FALSE, fs |-> f, wrote |-> {}, why |-> "AttributeError"]
  ELSE LET sp == SafeMemberPath(dest_dir, m.name)
       IN IF ~sp.ok THEN [ok |-> FALSE, fs |-> f, wrote |-> {}, why |-> sp.why]
          ELSE IF m.type = "dir"
          THEN LET mk == Mkdirs(f, sp.path)
               IN [ok |-> mk.ok, fs |-> mk.fs, wrote |-> Wrote(mk.made, i, "dir"),
                   why |-> IF mk.ok THEN "none" ELSE "mkdir"]
          ELSE IF m.type # "reg"
          THEN IF PrintRaises(io, m.name)
               THEN [ok |-> FALSE, fs |-> f, wrote |-> {}, why |-> "UnicodeEncodeError"]
               ELSE [ok |-> TRUE, fs |-> f, wrote |-> {}, why |-> "none"]
          ELSE LET mk == Mkdirs(f, Parent(sp.path))
               IN IF ~mk.ok
                  THEN [ok |-> FALSE, fs |-> f, wrote |-> {}, why |-> "mkdir"]
                  ELSE IF IsDir(mk.fs, sp.path)
                  THEN [ok |-> FALSE, fs |-> mk.fs,
                        wrote |-> Wrote(mk.made, i, "dir"), why |-> "open"]
                  ELSE [ok |-> TRUE,
                        fs |-> (sp.path :> FileNode(m.c)) @@ mk.fs,
                        wrote |-> Wrote(mk.made, i, "dir")
                                  \cup Wrote({sp.path}, i, "file"),
                        why |-> "none"]

RECURSIVE WriteMembers(_, _, _, _, _, _)
\* the write loop from member i on; an exception ends it, what was written stays
WriteMembers(f, ms, dest_dir, i, wrote, io) ==
  IF i > Len(ms) THEN [ok |-> TRUE, fs |-> f, wrote |-> wrote, why |-> "none"]
  ELSE LET r == WriteMember(f, ms[i], dest_dir, i, io)
       IN IF ~r.ok
          THEN [ok |-> FALSE, fs |-> r.fs, wrote |-> wrote \cup r.wrote, why |-> r.why]
          ELSE WriteMembers(r.fs, ms, dest_dir, i + 1, wrote \cup r.wrote, io)

\* the pre-validation loop (lines 59-64): does every member name pass?
AllValid(ms, dest_dir) ==
  \A i \in 1..Len(ms) : SafeMemberPath(dest_dir, ms[i].name).ok

\* extraction that validates each member only when it is about to write it
ExtractTarNoPrevalidation(f, c, dest_dir, io) ==
  LET mk == Mkdirs(f, dest_dir)
  IN IF ~mk.ok THEN [ok |-> FALSE, fs |-> f, wrote |-> {}, why |-> "mkdir"]
     ELSE IF ~Readable(c)
     THEN [ok |-> FALSE, fs |-> mk.fs, wrote |-> Wrote(mk.made, 0, "dir"),
           why |-> "read"]
     ELSE WriteMembers(mk.fs, MembersOf(c), dest_dir, 1, Wrote(mk.made, 0, "dir"),
                       io)

\* extract_tar_safely(archive, dest_dir) on the archive's bytes c
ExtractTar(f, c, dest_dir, io) ==
  LET mk == Mkdirs(f, dest_dir)
  IN IF ~mk.ok THEN [ok |-> FALSE, fs |-> f, wrote |-> {}, why |-> "mkdir"]
     ELSE IF ~Readable(c)
     THEN [ok |-> FALSE, fs |-> mk.fs, wrote |-> Wrote(mk.made, 0, "dir"),
           why |-> "read"]
     ELSE IF ~AllValid(MembersOf(c), dest_dir)
     THEN [ok |-> FALSE, fs |-> mk.fs, wrote |-> Wrote(mk.made, 0, "dir"),
           why |-> "reject"]
     ELSE WriteMembers(mk.fs, MembersOf(c), dest_dir, 1, Wrote(mk.made, 0, "dir"),
                       io)

\* ------------------------------------------------------------ gunzip_to_file
\* dest_dir / base: pathlib drops a "." or empty base
JoinName(dir, base) == IF base \in {Dot, EmptyName} THEN dir ELSE Append(dir, base)

\* an output path that is dest_dir / base whether it exists or not
GunzipOutInPlace(f, name, dest_dir) ==
  JoinName(dest_dir,
           IF EndsWith1(name, "gz") THEN SubSeq(name, 1, Len(name) - 1) ELSE name)

\* an output path that stops at out.1 whether it exists or not
GunzipOutOneProbe(f, name, dest_dir) ==
  LET base == IF EndsWith1(name, "gz") THEN SubSeq(name, 1, Len(name) - 1) ELSE name
      out == JoinName(dest_dir, base)
  IN IF Exists(f, out) THEN WithSuffix(out, 1) ELSE out

\* the output path of gunzip_to_file (lines 105-114)
GunzipOut(f, name, dest_dir) ==
  LET base == IF EndsWith1(name, "gz") THEN SubSeq(name, 1, Len(name) - 1) ELSE name
      out == JoinName(dest_dir, base)
  IN IF Exists(f, out) THEN FirstFree(f, out) ELSE out

\* gunzip_to_file(gz_path, dest_dir) on the file's bytes c; open(out, "wb")
\* creates the output before gzip reads the first byte
Gunzip(f, c, name, dest_dir) ==
  LET mk == Mkdirs(f, dest_dir)
  IN IF ~mk.ok THEN [ok |-> FALSE, fs |-> f, wrote |-> {}, why |-> "mkdir"]
     ELSE LET out == GunzipOut(mk.fs, name, dest_dir)
              w == Wrote(mk.made, 0, "dir") \cup Wrote({out}, 1, "file")
          IN IF c.k = "gz"
             THEN [ok |-> TRUE, fs |-> (out :> FileNode(c.of)) @@ mk.fs,
                   wrote |-> w, why |-> "none"]
             ELSE IF c = Data("")
             THEN \* gzip reads an empty file as an empty stream
                  [ok |-> TRUE, fs |-> (out :> FileNode(Data(""))) @@ mk.fs,
                   wrote |-> w, why |-> "none"]
             ELSE [ok |-> FALSE, fs |-> (out :> FileNode(Data(""))) @@ mk.fs,
                   wrote |-> w, why |-> "gzip"]

\* ------------------------------------------------------------ completion log
\* A string of the log or of the completion set: str(path) of an absolute
\* path is [abs |-> TRUE, parts |-> path]; a piece of a path string cut at a
\* line break may be relative.
Key(p) == [abs |-> TRUE, parts |-> p]

\* the segments that hold a line break, and the text around it
BreakSegs == {"n\nb"}
BeforeBreak(s) == "n"
AfterBreak(s) == "b"

HasBreak(comp) == \E j \in 1..Len(comp) : comp[j] \in BreakSegs
FirstBreak(comp) == CHOOSE j \in 1..Len(comp) :
                      comp[j] \in BreakSegs /\ \A h \in 1..(j - 1) : comp[h] \notin BreakSegs

RECURSIVE SplitLines(_)
\* str.splitlines() of one logged string
SplitLines(k) ==
  IF \A i \in 1..Len(k.parts) : ~HasBreak(k.parts[i]) THEN <<k>>
  ELSE LET ci == CHOOSE i \in 1..Len(k.parts) :
                   HasBreak(k.parts[i]) /\ \A h \in 1..(i - 1) : ~HasBreak(k.parts[h])
           comp == k.parts[ci]
           si == FirstBreak(comp)
           head == [abs |-> k.abs,
                    parts |-> SubSeq(k.parts, 1, ci - 1)
                              \o <<Append(SubSeq(comp, 1, si - 1), BeforeBreak(comp[si]))>>]
           tail == [abs |-> FALSE,
                    parts |-> <<(<<AfterBreak(comp[si])>> \o SubSeq(comp, si + 1, Len(comp)))>>
                              \o SubSeq(k.parts, ci + 1, Len(k.parts))]
       IN <<head>> \o SplitLines(tail)

SeqRange(s) == {s[i] : i \in 1..Len(s)}

\* the strings appended to the log file so far
LogItems(f, state_file) ==
  IF state_file \in DOMAIN f THEN f[state_file].c.items ELSE <<>>

\* load_done(state_file): the stripped non-empty lines of the file
load_done(f, state_file) ==
  UNION {SeqRange(SplitLines(LogItems(f, state_file)[i])) :
           i \in 1..Len(LogItems(f, state_file))}

\* append_done with open(..., "w"): the file is cut to the new line
AppendDoneTruncating(f, state_file, item) ==
  (state_file :> FileNode(LogText(<<item>>))) @@ f

\* append_done(state_file, item): open(..., "a") creates the file
append_done(f, state_file, item) ==
  (state_file :> FileNode(LogText(Append(LogItems(f, state_file), item)))) @@ f

\* a mark that records nothing
MarkNothing(f, d, state_file, p) == [fs |-> f, done |-> d, wrote |-> {}]

\* a mark that appends to the log and leaves the set in memory alone
MarkLogOnly(f, d, state_file, p) ==
  [fs |-> append_done(f, state_file, Key(Resolve(p))), done |-> d,
   wrote |-> {state_file}]

\* main.mark(path): (the file system, the completion set) after the call
Mark(f, d, state_file, p) ==
  IF Key(Resolve(p)) \notin d
  THEN [fs |-> append_done(f, state_file, Key(Resolve(p))),
        done |-> d \cup {Key(Resolve(p))},
        wrote |-> {state_file}]
  ELSE [fs |-> f, done |-> d, wrote |-> {}]

\* -------------------------------------------------------------------- main
\* bounds of the runs the model explores
MaxRuns == 2
MaxChain == 3
MaxDepthArg == 2
\* the default of --max-depth
DefaultMaxDepth == 8

\* args.output_dir and the directory of args.input, both resolved
OutDir == <<<<"o">>>>
InDir == <<<<"in">>>>
\* line 150
StateFile == Append(OutDir, <<"", "safe_recursive_extract", "done">>)
\* top = inp.parent / "top.extracted"
TopBesideInput == Append(InDir, <<"top", "extracted">>)

\* line 153: top = outdir / "top.extracted"
Top == Append(OutDir, <<"top", "extracted">>)

DepthArgs == (-1..MaxDepthArg) \cup {DefaultMaxDepth}

\* tar members
Rel(parts) == [root |-> "", parts |-> parts]
Reg(parts, c) == [name |-> Rel(parts), type |-> "reg", c |-> c]
Other(parts, t) == [name |-> Rel(parts), type |-> t, c |-> Data("")]

RECURSIVE TarChain(_)
\* a chain of n nested tar archives, each holding exactly the next
TarChain(n) ==
  IF n <= 1 THEN Tar(<<Reg(<<<<"hello", "txt">>>>, Data("hello"))>>)
  ELSE Tar(<<Reg(<<<<"n", "tar">>>>, TarChain(n - 1))>>)

RECURSIVE GzChain(_)
\* a chain of n nested gzip files, each holding exactly the next
GzChain(n) == IF n = 0 THEN Data("hello") ELSE Gz(GzChain(n - 1))

RECURSIVE GzName(_)
\* x.gz, x.gz.gz, ...
GzName(n) == IF n = 0 THEN <<"x">> ELSE Append(GzName(n - 1), "gz")

\* a.tar holding b.tar.gz holding c.gz holding plain data
AbcTar ==
  Tar(<<Reg(<<<<"b", "tar", "gz">>>>,
            Gz(Tar(<<Reg(<<<<"c", "gz">>>>, Gz(Data("hello")))>>)))>>)

Passwd == <<DotDot, DotDot, <<"etc">>, <<"passwd">>>>

\* a link first, ../../etc/passwd second
EvilTar == Tar(<<Other(<<<<"l">>>>, "sym"), Reg(Passwd, Data("root"))>>)

\* an absolute member name behind a link
AbsTar ==
  Tar(<<Other(<<<<"l">>>>, "sym"),
        [name |-> [root |-> "/", parts |-> <<<<"etc">>, <<"passwd">>>>],
         type |-> "reg", c |-> Data("root")]>>)

\* one link whose name holds a byte that is no UTF-8
BadNameTar == Tar(<<Other(<<<<"l\\xff">>>>, "sym")>>)

\* links, devices and a fifo only
LinksTar ==
  Tar(<<Other(<<<<"l">>>>, "sym"),
        Other(<<<<"h">>>>, "lnk"),
        Other(<<<<"cd">>>>, "chr"),
        Other(<<<<"bd">>>>, "blk"),
        Other(<<<<"ff">>>>, "fifo")>>)

\* a link, then a directory, files (one with a ".." that stays inside) and
\* a member of an unknown type
SpecialTar ==
  Tar(<<Other(<<<<"l">>>>, "sym"),
        Other(<<<<"d">>>>, "dir"),
        Reg(<<<<"d">>, <<"f">>>>, Data("f")),
        Reg(<<<<"a">>, DotDot, <<"g">>>>, Data("g")),
        Other(<<<<"u">>>>, "other")>>)

\* an output directory that was used before: archives and a directory with
\* the name of a destination lie in it
UsedOutDir ==
  (OutDir :> DirNode)
  @@ (Append(OutDir, <<"old">>) :> DirNode)
  @@ (OutDir \o <<<<"old">>, <<"p", "tar">>>> :> FileNode(TarChain(1)))
  @@ (OutDir \o <<<<"old">>, <<"e", "tgz">>>> :> FileNode(Gz(EvilTar)))
  @@ (OutDir \o <<<<"old">>, <<"q", "gz", "gz">>>> :> FileNode(Gz(Gz(Data("q")))))
  @@ (OutDir \o <<<<"old">>, <<"q", "gz", "gz", "gunzipped">>>> :> DirNode)
  @@ (OutDir \o <<<<"old">>, <<"q", "gz", "gz", "gunzipped">>, <<"q">>>>
        :> FileNode(Data("old")))

\* what the output directory holds before the first run
Before(i) == IF "pre" \in DOMAIN i THEN i.pre ELSE << >>

Inputs ==
  {[name |-> GzName(n), c |-> GzChain(n)] : n \in 1..MaxChain}
  \cup {[name |-> <<"a", "tar">>, c |-> TarChain(n)] : n \in 1..MaxChain}
  \cup {[name |-> <<"a", "tar">>, c |-> AbcTar],
        [name |-> <<"a", "tar">>, c |-> EvilTar],
        [name |-> <<"a", "tar">>, c |-> AbsTar],
        [name |-> <<"a", "tar">>, c |-> LinksTar],
        [name |-> <<"u", "tar">>, c |-> BadNameTar],
        [name |-> <<"u", "tar", "gz", "gz">>, c |-> Gz(Gz(BadNameTar))],
        [name |-> <<"A", "TGZ">>, c |-> Gz(SpecialTar)],
        [name |-> <<"e", "tar", "gz", "gz">>, c |-> Gz(Gz(EvilTar))],
        [name |-> <<"l", "tgz", "GZ">>, c |-> Gz(Gz(LinksTar))],
        [name |-> <<"s", "tar", "gz">>, c |-> Gz(Tar(<<>>))],
        [name |-> <<"s", "tar", "gz", "gz">>, c |-> Gz(Gz(SpecialTar))],
        [name |-> <<"n\nb", "gz">>, c |-> Gz(Data("hello"))],
        [name |-> <<"n\nb", "gz", "gz">>, c |-> Gz(Gz(Data("hello")))],
        [name |-> <<"j", "gz", "gz", "gz">>, c |-> Gz(Data("junk"))],
        [name |-> <<"m", "gz">>, c |-> Gz(Data("hello")), pre |-> UsedOutDir],
        [name |-> <<"c", "gz">>, c |-> Data("junk")],
        [name |-> <<"a", "zip">>, c |-> Data("zip")],
        [name |-> <<"missing", "tar">>, c |-> Data("")]}

\* a scan that looks for the tar suffixes only
CandidatesNoGz(f) ==
  {p \in DOMAIN f :
     /\ OutDir \in Parents(p)
     /\ f[p].t = "file"
     /\ \/ EndsWith1(NameOf(p), "tar")
        \/ EndsWith1(NameOf(p), "tgz")
        \/ EndsWith2(NameOf(p), "tar", "gz")}

\* the files of lines 193-198: every file below outdir with an archive suffix
Candidates(f) ==
  {p \in DOMAIN f :
     /\ OutDir \in Parents(p)
     /\ f[p].t = "file"
     /\ \/ EndsWith1(NameOf(p), "tar")
        \/ EndsWith1(NameOf(p), "tgz")
        \/ EndsWith2(NameOf(p), "tar", "gz")
        \/ EndsWith1(NameOf(p), "gz")}

\* the tests "str(inp) not in done" (line 164) and "str(f) in done" (line 204)
AlreadyDoneNever(d, p) == FALSE
AlreadyDoneAlways(d, p) == TRUE

AlreadyDone(d, p) == Key(Resolve(p)) \in d

\* range(1, max_depth) instead of range(1, max_depth + 1)
LoopOverOneEarly(dep, md) == dep >= md

\* a loop that never runs out
LoopOverNever(dep, md) == FALSE

\* "for depth in range(1, max_depth + 1)" is exhausted
LoopOver(dep, md) == dep > md

\* before the first run
NoRun == [loaded |-> {}, pending |-> {}]

NoSmp == [dest |-> <<>>, name |-> Rel(<<>>), st |-> "off",
          res |-> [ok |-> FALSE, path |-> <<>>, why |-> "none"]]

MainInit(i) ==
  /\ fs = IF i.name = <<"missing", "tar">>
          THEN (InDir :> DirNode)
          ELSE (InDir :> DirNode) @@ (Append(InDir, i.name) :> FileNode(i.c))
               @@ Before(i)
  /\ inp = Append(InDir, i.name)
  /\ maxDepth = 0
  /\ pc = "idle"
  /\ done = {}
  /\ depth = 0
  /\ cands = {}
  /\ newWork = FALSE
  /\ runs = 0
  /\ calls = <<>>
  /\ touched = {}
  /\ finals = <<>>
  /\ begun = NoRun

NoPure == [fn |-> "none", st |-> "off"]

Init == (\E i \in Inputs : MainInit(i)) /\ smp = NoSmp /\ pure = NoPure

\* main returns: the run's exit status and completion set are recorded
EndRun(code, fixpoint, d, n) ==
  /\ finals' = Append(finals, [run |-> runs, maxDepth |-> maxDepth, code |-> code,
                               done |-> d, fixpoint |-> fixpoint,
                               ncalls |-> n, loaded |-> begun.loaded,
                               pending |-> begun.pending])
  /\ pc' = "idle"
  /\ done' = {}
  /\ depth' = 0
  /\ cands' = {}
  /\ newWork' = FALSE

\* the model's runs print, to a standard output that takes every name
RunIO == Stdout(TRUE, FALSE)

\* extract_tar_safely or gunzip_to_file, as main picks by the name
Unpack(f, p, dest, io) ==
  IF is_tarish(p) THEN ExtractTar(f, f[p].c, dest, io)
  ELSE Gunzip(f, f[p].c, NameOf(p), dest)

\* what a call did, without the file system it left
Outcome(r) == [ok |-> r.ok, why |-> r.why, wrote |-> r.wrote]

\* a call of the run, and what the same call does with and without --quiet
\* on a standard output that is strict (TRUE) or not (FALSE)
Call(p, dest, r, d) ==
  [run |-> runs, depth |-> depth, src |-> p, dest |-> dest,
   kind |-> IF is_tarish(p) THEN "tar" ELSE "gz",
   ok |-> r.ok, why |-> r.why, wrote |-> r.wrote,
   inDone |-> Key(p) \in d,
   fresh |-> ~Exists(fs, dest),
   cut |-> FALSE,
   quiet |-> [s \in BOOLEAN |-> Outcome(Unpack(fs, p, dest, Stdout(FALSE, s)))],
   loud |-> [s \in BOOLEAN |-> Outcome(Unpack(fs, p, dest, Stdout(TRUE, s)))],
   bad |-> is_tarish(p) /\ Readable(fs[p].c) /\ ~AllValid(MembersOf(fs[p].c), dest),
   logged |-> Key(p) \in SeqRange(LogItems(fs, StateFile))]

\* lines 137-154: the arguments, the output directory, the completion set
Start(md) ==
  /\ pc = "idle"
  /\ runs < MaxRuns
  /\ runs' = runs + 1
  /\ maxDepth' = md
  /\ UNCHANGED <<inp, calls, smp, pure>>
  /\ IF ~IsFile(fs, inp)
     THEN /\ finals' = Append(finals, [run |-> runs + 1, maxDepth |-> md, code |-> 1,
                                       done |-> {}, fixpoint |-> FALSE,
                                       ncalls |-> Len(calls), loaded |-> {},
                                       pending |-> {}])
          /\ UNCHANGED <<fs, pc, done, depth, cands, newWork, touched, begun>>
     ELSE LET mk == Mkdirs(fs, OutDir)
              mkTop == Mkdirs(mk.fs, Top)
          IN /\ fs' = mkTop.fs
             /\ touched' = touched \cup mk.made \cup mkTop.made
             /\ done' = load_done(mk.fs, StateFile)
             /\ begun' = [loaded |-> load_done(mk.fs, StateFile),
                          pending |-> {p \in Candidates(fs) \cup {inp} :
                                         Key(p) \notin load_done(mk.fs, StateFile)}]
             /\ pc' = "top"
             /\ UNCHANGED <<depth, cands, newWork, finals>>

\* lines 163-185: the top-level archive
TopLevel ==
  /\ pc = "top"
  /\ UNCHANGED <<inp, maxDepth, runs, begun, smp, pure>>
  /\ IF AlreadyDone(done, inp)
     THEN /\ pc' = "pass"
          /\ depth' = 1
          /\ UNCHANGED <<fs, done, cands, newWork, calls, touched, finals>>
     ELSE IF is_tarish(inp) \/ is_plain_gz(inp)
     THEN LET r == Unpack(fs, inp, Top, RunIO)
              mk == Mark(r.fs, done, StateFile, inp)
          IN /\ calls' = Append(calls, Call(inp, Top, r, done))
             /\ IF r.ok
                THEN /\ fs' = mk.fs
                     /\ done' = mk.done
                     /\ touched' = touched \cup {w.path : w \in r.wrote} \cup mk.wrote
                     /\ pc' = "pass"
                     /\ depth' = 1
                     /\ UNCHANGED <<cands, newWork, finals>>
                ELSE /\ fs' = r.fs
                     /\ touched' = touched \cup {w.path : w \in r.wrote}
                     /\ EndRun(2, FALSE, done, Len(calls) + 1)
     ELSE /\ EndRun(1, FALSE, done, Len(calls))
          /\ UNCHANGED <<fs, calls, touched>>

\* lines 188-200: the loop head and the scan of a pass
PassHead ==
  /\ pc = "pass"
  /\ UNCHANGED <<fs, inp, maxDepth, runs, calls, touched, begun, smp, pure>>
  /\ IF LoopOver(depth, maxDepth)
     THEN EndRun(0, FALSE, done, Len(calls))
     ELSE /\ cands' = Candidates(fs)
          /\ newWork' = FALSE
          /\ pc' = "work"
          /\ UNCHANGED <<done, depth, finals>>

\* a pass whose first failed extraction ends the run with status 2
WorkFailFast(p) ==
  /\ pc = "work"
  /\ p \in cands
  /\ UNCHANGED <<inp, maxDepth, runs, begun, smp, pure>>
  /\ IF AlreadyDone(done, p) \/ ~(is_tarish(p) \/ is_plain_gz(p))
     THEN /\ cands' = cands \ {p}
          /\ UNCHANGED <<fs, pc, depth, done, newWork, calls, touched, finals>>
     ELSE LET base == Append(Parent(p),
                             Append(NameOf(p),
                                    IF is_tarish(p) THEN "extracted" ELSE "gunzipped"))
              dest == unique_dir(fs, base)
              r == Unpack(fs, p, dest, RunIO)
              mk == Mark(r.fs, done, StateFile, p)
          IN /\ calls' = Append(calls, Call(p, dest, r, done))
             /\ touched' = touched \cup {w.path : w \in r.wrote} \cup mk.wrote
             /\ IF r.ok
                THEN /\ fs' = mk.fs
                     /\ done' = mk.done
                     /\ cands' = cands \ {p}
                     /\ newWork' = TRUE
                     /\ UNCHANGED <<pc, depth, finals>>
                ELSE /\ fs' = mk.fs
                     /\ EndRun(2, FALSE, mk.done, Len(calls) + 1)

\* lines 202-233: one candidate of the pass, in any order rglob may give
\* a pass that also goes over the archive files it has just written
WorkDepthFirst(p) ==
  /\ pc = "work"
  /\ p \in cands
  /\ UNCHANGED <<inp, maxDepth, pc, depth, runs, finals, begun, smp, pure>>
  /\ IF AlreadyDone(done, p) \/ ~(is_tarish(p) \/ is_plain_gz(p))
     THEN /\ cands' = cands \ {p}
          /\ UNCHANGED <<fs, done, newWork, calls, touched>>
     ELSE LET base == Append(Parent(p),
                             Append(NameOf(p),
                                    IF is_tarish(p) THEN "extracted" ELSE "gunzipped"))
              dest == unique_dir(fs, base)
              r == Unpack(fs, p, dest, RunIO)
              mk == Mark(r.fs, done, StateFile, p)
          IN /\ calls' = Append(calls, Call(p, dest, r, done))
             /\ fs' = mk.fs
             /\ done' = mk.done
             /\ touched' = touched \cup {w.path : w \in r.wrote} \cup mk.wrote
             /\ newWork' = TRUE
             /\ cands' = (cands \ {p}) \cup
                            ({w.path : w \in r.wrote} \cap Candidates(mk.fs))

\* lines 202-233: one candidate of the list that line 192-198 built before
\* the loop; what the loop writes is not added to the list
Work(p) ==
  /\ pc = "work"
  /\ p \in cands
  /\ cands' = cands \ {p}
  /\ UNCHANGED <<inp, maxDepth, pc, depth, runs, finals, begun, smp, pure>>
  /\ IF AlreadyDone(done, p) \/ ~(is_tarish(p) \/ is_plain_gz(p))
     THEN UNCHANGED <<fs, done, newWork, calls, touched>>
     ELSE LET base == Append(Parent(p),
                             Append(NameOf(p),
                                    IF is_tarish(p) THEN "extracted" ELSE "gunzipped"))
              dest == unique_dir(fs, base)
              r == Unpack(fs, p, dest, RunIO)
              mk == Mark(r.fs, done, StateFile, p)
          IN /\ calls' = Append(calls, Call(p, dest, r, done))
             /\ fs' = mk.fs
             /\ done' = mk.done
             /\ touched' = touched \cup {w.path : w \in r.wrote} \cup mk.wrote
             /\ newWork' = TRUE

\* lines 235-238: the end of a pass
PassEnd ==
  /\ pc = "work"
  /\ cands = {}
  /\ UNCHANGED <<fs, inp, maxDepth, runs, calls, touched, begun, smp, pure>>
  /\ IF ~newWork
     THEN EndRun(0, TRUE, done, Len(calls))
     ELSE /\ depth' = depth + 1
          /\ pc' = "pass"
          /\ UNCHANGED <<done, cands, newWork, finals>>

Next ==
  \/ \E md \in DepthArgs : Start(md)
  \/ TopLevel
  \/ PassHead
  \/ \E p \in cands : Work(p)
  \/ PassEnd

Spec == Init /\ [][Next]_vars

\* ------------------------------------------------------- interrupted runs
\* how many extractions of a behaviour are interrupted at most
MaxCuts == 1

\* what an interrupted copy leaves in the output file: all of the data, none
\* of it, or a piece
Partials == {"all", "", "part"}

\* the file system after a call that was cut short
CutShort(r, part) ==
  IF part = "all" THEN r.fs
  ELSE [q \in DOMAIN r.fs |->
          IF \E w \in r.wrote : w.path = q /\ w.t = "file"
          THEN FileNode(Data(part)) ELSE r.fs[q]]

\* the process is killed (KeyboardInterrupt is no Exception: lines 170, 179,
\* 215, 230 do not catch it) during or after an extraction and before
\* mark() appends the archive's path; 130 is the status of a process ended
\* by SIGINT
Interrupt ==
  /\ pc \in {"top", "work"}
  /\ Cardinality({i \in 1..Len(calls) : calls[i].cut}) < MaxCuts
  /\ UNCHANGED <<inp, maxDepth, runs, begun, smp, pure>>
  /\ \E p \in (IF pc = "top" THEN {inp} ELSE cands), part \in Partials :
       /\ ~AlreadyDone(done, p)
       /\ is_tarish(p) \/ is_plain_gz(p)
       /\ LET base == Append(Parent(p),
                             Append(NameOf(p),
                                    IF is_tarish(p) THEN "extracted" ELSE "gunzipped"))
              dest == IF pc = "top" THEN Top ELSE unique_dir(fs, base)
              r == Unpack(fs, p, dest, RunIO)
          IN /\ calls' = Append(calls, [Call(p, dest, r, done) EXCEPT !.cut = TRUE])
             /\ fs' = CutShort(r, part)
             /\ touched' = touched \cup {w.path : w \in r.wrote}
             /\ EndRun(130, FALSE, done, Len(calls) + 1)

IntNext ==
  \/ \E md \in DepthArgs : Start(md)
  \/ TopLevel
  \/ PassHead
  \/ \E p \in cands : Work(p)
  \/ PassEnd
  \/ Interrupt

\* the inputs of the interrupted runs: two gzip layers, gzip layers around
\* archives and around junk, the tar archives, a file that is no gzip
IntInputs ==
  {x \in Inputs : x.name \in {GzName(2), <<"a", "tar">>, <<"c", "gz">>,
                              <<"j", "gz", "gz", "gz">>, <<"l", "tgz", "GZ">>,
                              <<"s", "tar", "gz", "gz">>}}

IntInit ==
  /\ \E i \in IntInputs : MainInit(i)
  /\ smp = NoSmp
  /\ pure = NoPure

SpecInt == IntInit /\ [][IntNext]_vars

\* ------------------------------------- safe_member_path on drawn inputs
SmpComps == {<<"a">>, <<"top", "extracted">>, DotDot, Dot}
SmpParts == UNION {[1..n -> SmpComps] : n \in 1..MaxParts}
SmpNames == [root : {"", "/", "\\"}, parts : SmpParts]
SmpDests == {<<<<"o">>, <<"top", "extracted">>>>, <<<<"o">>>>}

SmpInit ==
  /\ MainInit([name |-> <<"a", "tar">>, c |-> TarChain(1)])
  /\ pure = NoPure
  /\ \E d \in SmpDests, m \in SmpNames :
       smp = [dest |-> d, name |-> m, st |-> "drawn",
              res |-> [ok |-> FALSE, path |-> <<>>, why |-> "none"]]

SmpApply ==
  /\ smp.st = "drawn"
  /\ smp' = [smp EXCEPT !.st = "applied",
                        !.res = SafeMemberPath(smp.dest, smp.name)]
  /\ UNCHANGED mainVars
  /\ UNCHANGED pure

SmpNext == SmpApply

SpecSMP == SmpInit /\ [][SmpNext]_vars

\* ------------- unique_dir, gunzip_to_file and the classification on drawn inputs
\* how many of base.1, base.2, ... may exist; how many segments a name has
MaxTaken == 3
MaxSegs == 3

\* the class main gives a path: lines 165-185 and 208-220 test is_tarish first
Classify(p) ==
  IF is_tarish(p) THEN "TarLike"
  ELSE IF is_plain_gz(p) THEN "PlainGzip"
  ELSE "Unsupported"

\* p.name.lower()
LowerName(name) == [i \in 1..Len(name) |-> Lower(name[i])]

\* a file system that holds the paths of S as nodes of type t below /o
FsOf(S, t) ==
  [p \in S \cup UNION {Prefixes(Parent(q)) : q \in S} \cup {OutDir} |->
     IF p \in S /\ t = "file" /\ p \notin UNION {Prefixes(Parent(q)) : q \in S}
     THEN FileNode(Data("old")) ELSE DirNode]

UdBase == Append(OutDir, <<"x", "gz", "gunzipped">>)
UdPaths == {UdBase} \cup {WithSuffix(UdBase, i) : i \in 1..MaxTaken}

GzDest == Append(OutDir, <<"d">>)
GzNames == {<<"x", "gz">>, <<"X", "GZ">>, <<"x", "tar", "gz">>, <<"x">>,
            <<"", "gz">>, <<"", "", "gz">>, <<"", "", "", "gz">>}
GzPrior == {GzDest, WithSuffix(GzDest, 1),
            Append(GzDest, <<"x">>), Append(GzDest, <<"x", "1">>),
            Append(GzDest, <<"x", "2">>), Append(GzDest, <<"x", "tar">>),
            Append(GzDest, <<"", "", "", "1">>)}
GzContents == {Gz(Data("hello")), Data("junk"), Data("")}

ClsSegs == {"x", "", "tar", "gz", "tgz", "TAR", "Gz", "TGZ"}
ClsNames == UNION {[1..n -> ClsSegs] : n \in 1..MaxSegs}

PureInit ==
  /\ MainInit([name |-> <<"a", "tar">>, c |-> TarChain(1)])
  /\ smp = NoSmp
  /\ \/ \E S \in SUBSET UdPaths, t \in {"dir", "file"} :
          pure = [fn |-> "unique_dir", st |-> "drawn", f |-> FsOf(S, t),
                  base |-> UdBase, res |-> << >>]
     \/ \E S \in SUBSET GzPrior, n \in GzNames, c \in GzContents :
          pure = [fn |-> "gunzip_to_file", st |-> "drawn", f |-> FsOf(S, "file"),
                  name |-> n, c |-> c, dest |-> GzDest,
                  res |-> [ok |-> FALSE, fs |-> << >>, wrote |-> {}, why |-> "none"]]
     \/ \E n \in ClsNames :
          pure = [fn |-> "classify", st |-> "drawn", p |-> Append(InDir, n),
                  res |-> [cls |-> "none", tar |-> FALSE, gz |-> FALSE,
                           lowered |-> "none"]]

ApplyUniqueDir ==
  /\ pure.st = "drawn"
  /\ pure.fn = "unique_dir"
  /\ pure' = [pure EXCEPT !.st = "applied", !.res = unique_dir(pure.f, pure.base)]
  /\ UNCHANGED mainVars
  /\ UNCHANGED smp

ApplyGunzip ==
  /\ pure.st = "drawn"
  /\ pure.fn = "gunzip_to_file"
  /\ pure' = [pure EXCEPT !.st = "applied",
                          !.res = Gunzip(pure.f, pure.c, pure.name, pure.dest)]
  /\ UNCHANGED mainVars
  /\ UNCHANGED smp

\* the name is classified where it lies and, lowered, in another directory
ApplyClassify ==
  /\ pure.st = "drawn"
  /\ pure.fn = "classify"
  /\ pure' = [pure EXCEPT !.st = "applied",
                          !.res = [cls |-> Classify(pure.p),
                                   tar |-> is_tarish(pure.p),
                                   gz |-> is_plain_gz(pure.p),
                                   lowered |-> Classify(Append(OutDir,
                                                 LowerName(NameOf(pure.p))))]]
  /\ UNCHANGED mainVars
  /\ UNCHANGED smp

PureNext == ApplyUniqueDir \/ ApplyGunzip \/ ApplyClassify

SpecPure == PureInit /\ [][PureNext]_vars

\* ------------------------------------------------- asa_acl_object_analyzer
\* A line of the configuration is the sequence of its words: line 7 strips
\* the line, and every test of the parser is on the leading words.
\* how many lines a configuration has at most
MaxLines == 4
\* the recursion limit of the interpreter (sys.getrecursionlimit()), scaled
\* to the number of groups of the model
MaxStack == 4

\* "current_group = None": no name is the empty string, and the tests of
\* lines 52 and 63 take the empty string as they take None
None == ""

OgG == <<"object-group", "network", "G">>
OgH == <<"object-group", "service", "H">>
OgProtocol == <<"object-group", "protocol", "P">>
ObjO == <<"object", "network", "O">>
HostLine == <<"host", "1.1.1.1">>
GroupObjectG == <<"group-object", "G">>
GroupObjectH == <<"group-object", "H">>
AclLine == <<"access-list", "A", "extended", "permit", "ip", "any", "any", "any">>

AsaLines == {OgG, OgH, OgProtocol, ObjO, HostLine, GroupObjectG, GroupObjectH, AclLine}
AsaConfigs == UNION {[1..n -> AsaLines] : n \in 1..MaxLines}
AsaGroupNames == {"G", "H", "Z"}

\* line.startswith(w) for a word w
StartsWith(line, w) == Len(line) >= 1 /\ line[1] = w

\* acl_pattern.match(line)
AclMatch(line) ==
  /\ Len(line) >= 8
  /\ line[1] = "access-list"
  /\ line[3] = "extended"
  /\ line[4] \in {"permit", "deny"}

AclEntry(line) ==
  [action |-> line[4], protocol |-> line[5], src |-> line[6],
   src_detail |-> line[7], dst |-> line[8],
   dst_detail |-> IF Len(line) >= 9 THEN line[9] ELSE ""]

\* object_group_start.match(line)
OgMatch(line) ==
  Len(line) >= 3 /\ line[1] = "object-group" /\ line[2] \in {"network", "service"}

\* object_start.match(line)
ObjMatch(line) ==
  Len(line) >= 3 /\ line[1] = "object" /\ line[2] \in {"network", "service"}

\* the words that are a dotted address
Ips == {"1.1.1.1", "10.0.0.0", "255.0.0.0"}
\* host_pattern, subnet_pattern and port_pattern
HostMatch(line) == Len(line) >= 2 /\ line[1] = "host"
SubnetMatch(line) == Len(line) >= 2 /\ line[1] \in Ips /\ line[2] \in Ips
PortMatch(line) == Len(line) >= 2 /\ line[1] \in {"eq", "range"}

HostItem(v) == [type |-> "host", value |-> v]
SubnetItem(ip, mask) == [type |-> "subnet", ip |-> ip, mask |-> mask]
PortItem(method, value) == [type |-> "port", method |-> method, value |-> value]

\* d[k].append(x) on a defaultdict(list): the key is created when missing
AppendTo(d, k, x) ==
  IF k \in DOMAIN d THEN [d EXCEPT ![k] = Append(@, x)] ELSE (k :> <<x>>) @@ d

\* lines 63-73: the line of an object's body
ObjectBody(s, line) ==
  IF s.current_object = None THEN s
  ELSE IF StartsWith(line, "host")
  THEN IF HostMatch(line)
       THEN [s EXCEPT !.objects = AppendTo(@, s.current_object, HostItem(line[2]))]
       ELSE s
  ELSE IF SubnetMatch(line)
  THEN [s EXCEPT !.objects = AppendTo(@, s.current_object, SubnetItem(line[1], line[2]))]
  ELSE IF PortMatch(line)
  THEN [s EXCEPT !.objects = AppendTo(@, s.current_object,
                                      PortItem(line[1], SubSeq(line, 2, Len(line))))]
  ELSE s

\* lines 26-73: one iteration of the loop of parse_asa_config
ParseLine(s, line) ==
  IF AclMatch(line)
  THEN [s EXCEPT !.access_lists = AppendTo(@, line[2], AclEntry(line))]
  ELSE IF OgMatch(line)
  THEN [s EXCEPT !.current_group = line[3], !.in_group = TRUE]
  ELSE LET s1 == IF s.in_group /\ StartsWith(line, "object-group")
                 THEN [s EXCEPT !.current_group = None, !.in_group = FALSE]
                 ELSE s
       IN IF s1.in_group /\ s1.current_group # None
          THEN [s1 EXCEPT !.object_groups = AppendTo(@, s1.current_group, line)]
          ELSE IF ObjMatch(line)
          THEN [s1 EXCEPT !.current_object = line[3],
                          !.objects = (line[3] :> << >>) @@ @]
          ELSE ObjectBody(s1, line)

\* lines 9-23: the state of parse_asa_config before the loop
AsaInit ==
  /\ MainInit([name |-> <<"a", "tar">>, c |-> TarChain(1)])
  /\ smp = NoSmp
  /\ \E cfg \in AsaConfigs :
       pure = [fn |-> "parse_asa_config", st |-> "parsing", lines |-> cfg, i |-> 1,
               access_lists |-> << >>, object_groups |-> << >>, objects |-> << >>,
               current_group |-> None, current_object |-> None, in_group |-> FALSE,
               group_name |-> None, stack |-> << >>, expanded |-> << >>]

\* line 25: the loop takes the next line
AsaParseStep ==
  /\ pure.fn = "parse_asa_config"
  /\ pure.st = "parsing"
  /\ pure.i <= Len(pure.lines)
  /\ pure' = [ParseLine(pure, pure.lines[pure.i]) EXCEPT !.i = pure.i + 1]
  /\ UNCHANGED mainVars
  /\ UNCHANGED smp

\* line 75
AsaParseReturn ==
  /\ pure.fn = "parse_asa_config"
  /\ pure.st = "parsing"
  /\ pure.i > Len(pure.lines)
  /\ pure' = [pure EXCEPT !.st = "parsed"]
  /\ UNCHANGED mainVars
  /\ UNCHANGED smp

\* a frame of expand_object_group: its group, the line its loop is at, and
\* its list "expanded"
Frame(g) == [group_name |-> g, i |-> 1, expanded |-> << >>]

\* expand_object_group(g, object_groups, objects) is called on what the
\* parser returned (line 113)
AsaExpandCall ==
  /\ pure.fn = "parse_asa_config"
  /\ pure.st = "parsed"
  /\ \E g \in AsaGroupNames :
       pure' = [pure EXCEPT !.fn = "expand_object_group", !.st = "expanding",
                            !.group_name = g, !.stack = <<Frame(g)>>]
  /\ UNCHANGED mainVars
  /\ UNCHANGED smp

\* lines 83-100 but for the recursive call: what one line adds to "expanded"
ExpandLine(line, objects) ==
  IF StartsWith(line, "object") /\ Len(line) >= 2
  THEN IF line[2] \in DOMAIN objects THEN objects[line[2]] ELSE << >>
  ELSE IF StartsWith(line, "host")
  THEN IF HostMatch(line) THEN <<HostItem(line[2])>> ELSE << >>
  ELSE IF SubnetMatch(line) THEN <<SubnetItem(line[1], line[2])>>
  ELSE IF StartsWith(line, "port-object")
  THEN IF Len(line) >= 3 /\ line[2] \in {"eq", "range"}
       THEN <<PortItem(line[2], SubSeq(line, 3, Len(line)))>>
       ELSE << >>
  ELSE << >>

\* is the line one that makes the recursive call of lines 94-96?
IsNestedCall(line) ==
  /\ ~(StartsWith(line, "object") /\ Len(line) >= 2)
  /\ ~StartsWith(line, "host")
  /\ ~SubnetMatch(line)
  /\ StartsWith(line, "group-object")

\* one step of the innermost call of expand_object_group: it returns (lines
\* 79-80, 102), calls itself (line 96) or handles a line (lines 83-100)
AsaExpandStep ==
  /\ pure.fn = "expand_object_group"
  /\ pure.st = "expanding"
  /\ LET n == Len(pure.stack)
         top == pure.stack[n]
         known == top.group_name \in DOMAIN pure.object_groups
     IN IF ~known \/ top.i > Len(pure.object_groups[top.group_name])
        THEN IF n = 1
             THEN pure' = [pure EXCEPT !.st = "returned", !.stack = << >>,
                                       !.expanded = top.expanded]
             ELSE pure' = [pure EXCEPT
                             !.stack = [SubSeq(pure.stack, 1, n - 1) EXCEPT
                                          ![n - 1].expanded = @ \o top.expanded]]
        ELSE LET line == pure.object_groups[top.group_name][top.i]
             IN IF IsNestedCall(line)
                THEN IF Len(line) < 2
                     THEN pure' = [pure EXCEPT !.st = "IndexError"]
                     ELSE IF n >= MaxStack
                     THEN pure' = [pure EXCEPT !.st = "RecursionError"]
                     ELSE pure' = [pure EXCEPT
                                     !.stack = Append([pure.stack EXCEPT ![n].i = @ + 1],
                                                      Frame(line[2]))]
                ELSE pure' = [pure EXCEPT
                                !.stack[n].i = @ + 1,
                                !.stack[n].expanded = @ \o ExpandLine(line, pure.objects)]
  /\ UNCHANGED mainVars
  /\ UNCHANGED smp

AsaNext == AsaParseStep \/ AsaParseReturn \/ AsaExpandCall \/ AsaExpandStep

SpecAsa == AsaInit /\ [][AsaNext]_vars

\* ------------------------------------------------------------------ claims
HasDotDot(m) == \E i \in 1..Len(m.parts) : m.parts[i] = DotDot
Applied == smp.st = "applied"
\* where dest_dir / member_name lies once ".." and "." are collapsed
Lands(dest_dir, m) == Resolve(PathJoin(dest_dir, m))

\* C1 as stated: every member name with a ".." segment or a leading root
\* marker makes safe_member_path fail, and nothing is written.
C1_AsStated ==
  Applied /\ (HasDotDot(smp.name) \/ smp.name.root # "")
    => ~smp.res.ok /\ touched = {}

\* C1 amended: safe_member_path fails for every member name that starts with
\* a root marker, and for every name whose ".." segments lead to a place
\* that is neither dest_dir nor below it; it writes nothing. (A name whose
\* ".." segments stay inside dest_dir, such as a/../b, is accepted.)
C1_RejectsEscapes ==
  Applied =>
    /\ smp.name.root # "" => ~smp.res.ok /\ smp.res.why = "absolute"
    /\ (smp.name.root = "" /\ ~Within(Resolve(smp.dest), Lands(smp.dest, smp.name)))
         => ~smp.res.ok /\ smp.res.why = "traversal"
    /\ touched = {}

C1_Witness ==
  /\ Applied
  /\ smp.name.root = ""
  /\ HasDotDot(smp.name)
  /\ ~Within(Resolve(smp.dest), Lands(smp.dest, smp.name))
  /\ smp.res.why = "traversal"

\* C4: whenever safe_member_path returns a path, the path is the resolved
\* destination directory or a descendant of it.
C4_ResultInsideDest ==
  Applied /\ smp.res.ok => Within(Resolve(smp.dest), smp.res.path)

C4_Witness ==
  /\ Applied
  /\ smp.res.ok
  /\ HasDotDot(smp.name)
  /\ smp.res.path # Resolve(smp.dest)

CallSet == {calls[i] : i \in 1..Len(calls)}

\* C2: every file or directory a run creates or writes is the output
\* directory or a descendant of it, whatever the archives hold.
C2_WritesStayInOutDir == \A p \in touched : Within(OutDir, p)

C2_Witness ==
  /\ \E c \in CallSet : c.why = "reject"
  /\ \E p \in touched : Len(p) >= 3
  /\ Len(finals) >= 1

\* the writes of a call that come from the archive's members
MemberWrites(c) == {w \in c.wrote : w.idx >= 1}

\* C3: when any member of a tar-like archive fails validation, wherever it
\* sits in the archive, the extraction is rejected by the validation loop
\* and none of the archive's members has been written.
C3_RejectedBeforeAnyWrite ==
  \A c \in CallSet : c.bad => ~c.ok /\ c.why = "reject" /\ MemberWrites(c) = {}

C3_Witness ==
  \E c \in CallSet :
    /\ c.bad
    /\ SafeMemberPath(c.dest, MembersOf(fs[c.src].c)[1].name).ok
    /\ ~c.ok

\* C5: link, device, fifo and socket members are never created on disk;
\* everything extract_tar_safely writes comes from a regular-file or a
\* directory member and is a regular file or a directory.
C5_OnlyFilesAndDirs ==
  /\ \A p \in DOMAIN fs : fs[p].t \in {"dir", "file"}
  /\ \A c \in CallSet :
       c.kind = "tar" =>
         \A w \in MemberWrites(c) :
           /\ w.t \in {"dir", "file"}
           /\ MembersOf(fs[c.src].c)[w.idx].type \in {"reg", "dir"}

C5_Witness ==
  \E c \in CallSet :
    /\ c.kind = "tar"
    /\ c.ok
    /\ c.depth >= 1
    /\ IsDir(fs, c.dest)
    /\ \E i \in 1..Len(MembersOf(fs[c.src].c)) :
         /\ MembersOf(fs[c.src].c)[i].type \in SpecialTypes
         /\ Lands(c.dest, MembersOf(fs[c.src].c)[i].name) \notin DOMAIN fs


\* a run's completion log, as appended so far
Log == LogItems(fs, StateFile)

\* C6 as stated: across runs that share the output directory and its log, an
\* archive path that was put into the completion set (and log) is never
\* extracted or decompressed again.
C6_AsStated == \A c \in CallSet : ~c.logged

IsGzChain(n) ==
  /\ inp = Append(InDir, GzName(n))
  /\ IsFile(fs, inp)
  /\ fs[inp].c = GzChain(n)

CallsBefore(i) == IF i = 1 THEN 0 ELSE finals[i - 1].ncalls

IsTarChain(n) ==
  /\ IsFile(fs, inp)
  /\ is_tarish(inp)
  /\ fs[inp].c = TarChain(n)

\* the first run made exactly n calls, all successful
FirstRunExtracted(n) ==
  /\ finals[1].ncalls = n
  /\ \A j \in 1..n : calls[j].ok

C9_AsStated ==
  \A n \in 1..MaxChain :
    ((IsGzChain(n) \/ IsTarChain(n)) /\ Len(finals) >= 1 /\ finals[1].maxDepth >= n)
      => FirstRunExtracted(n) /\ finals[1].code = 0

ABC == <<Append(InDir, <<"a", "tar">>),
         Append(Top, <<"b", "tar", "gz">>),
         Top \o <<<<"b", "tar", "gz", "extracted">>, <<"c", "gz">>>>>>

\* C10 as stated: for a.tar holding b.tar.gz holding c.gz, a run with
\* max-depth 8 extracts a.tar at the top level, b.tar.gz in pass 1 and c.gz
\* in pass 2, leaves exactly three paths in the log and exits 0; a second
\* run extracts nothing and exits 0.
C10_AsStated ==
  (IsFile(fs, inp) /\ fs[inp].c = AbcTar /\ Len(finals) >= 1
     /\ finals[1].maxDepth = DefaultMaxDepth)
    => /\ Len(calls) = 3
       /\ \A j \in 1..3 : calls[j].src = ABC[j] /\ calls[j].depth = j - 1 /\ calls[j].ok
       /\ Log = <<Key(ABC[1]), Key(ABC[2]), Key(ABC[3])>>
       /\ \A i \in 1..Len(finals) : finals[i].code = 0

\* the record of how run number r ended
EndsOf(r) == {finals[i] : i \in {j \in 1..Len(finals) : finals[j].run = r}}
Supported(p) == is_tarish(p) \/ is_plain_gz(p)

C12_AsStated ==
  \A c \in CallSet : c.depth = 0 => Key(c.src) \in SeqRange(Log)

\* C12 amended: the top-level step marks the input path (set and log) when
\* its extraction or decompression succeeds; when it fails the run exits 2
\* and the input path is in neither the set nor the log.
C12_MarkedOnSuccessOnly ==
  \A c \in CallSet :
    c.depth = 0 =>
      /\ c.src = inp
      /\ c.ok => /\ Key(inp) \in SeqRange(Log)
                 /\ (c.run = runs /\ pc # "idle") => Key(inp) \in done
                 /\ \A e \in EndsOf(c.run) : Key(inp) \in e.done
      /\ ~c.ok => /\ Key(inp) \notin SeqRange(Log)
                  /\ \A e \in EndsOf(c.run) : e.code = 2 /\ Key(inp) \notin e.done
                  /\ EndsOf(c.run) # {}

C12_Witness ==
  /\ \E c \in CallSet : c.depth = 0 /\ ~c.ok /\ c.run = 1
  /\ \E c \in CallSet : c.depth = 0 /\ ~c.ok /\ c.run = 2
  /\ Len(finals) = 2

\* C13: every archive a pass processes (it was not in the completion set) is
\* in the completion set and in the log when its step ends, whether the
\* extraction or decompression succeeded or raised an error.
C13_MarkedAfterEveryStep ==
  \A c \in CallSet :
    c.depth >= 1 =>
      /\ ~c.inDone
      /\ Key(c.src) \in SeqRange(Log)
      /\ (c.run = runs /\ pc # "idle") => Key(c.src) \in done
      /\ \A e \in EndsOf(c.run) : Key(c.src) \in e.done

C13_Witness ==
  /\ pc = "work"
  /\ \E c \in CallSet : c.run = runs /\ c.depth = depth /\ ~c.ok /\ Key(c.src) \in done
  /\ \E c \in CallSet : c.run = runs /\ c.depth = depth /\ c.ok /\ Key(c.src) \in done

\* the paths a call created or wrote
PathsOf(c) == {w.path : w \in c.wrote}

\* C14: a failed extraction in a pass never ends the run: a run that got
\* into the passes exits 0, and when a pass has gone over its candidates
\* every archive file under the output directory is in the completion set,
\* but for the files this very pass wrote.
C14_PassFailuresAreNotFatal ==
  /\ \A c \in CallSet : c.depth >= 1 => \A e \in EndsOf(c.run) : e.code = 0
  /\ (pc = "work" /\ cands = {}) =>
       \A p \in Candidates(fs) :
         Key(p) \notin done =>
           \E c \in CallSet : c.run = runs /\ c.depth = depth /\ p \in PathsOf(c)

C14_Witness ==
  /\ \E i, j \in 1..Len(calls) :
       /\ i < j
       /\ calls[i].run = calls[j].run
       /\ calls[i].depth = calls[j].depth
       /\ calls[i].depth >= 1
       /\ calls[i].why = "reject"
       /\ calls[j].ok
       /\ \E e \in EndsOf(calls[i].run) : e.code = 0
  /\ \E c \in CallSet : c.depth >= 2

\* C15: the only change ever made to the completion log is appending a
\* line, and the completion set of a run only grows.
C15_LogAppendOnly ==
  [][/\ Log' = Log \/ \E k \in done' \cup {Key(inp)} : Log' = Append(Log, k)
     /\ (pc # "idle" /\ pc' # "idle") => done \subseteq done']_vars

C15_Witness ==
  /\ runs = 2
  /\ Len(Log) >= 3
  /\ \E c \in CallSet : c.run = 2 /\ Key(c.src) = Log[Len(Log)]
  /\ Key(inp) = Log[1]

\* C16 as stated: no destination a run extracts into, the top-level one
\* included, exists when the extraction into it begins.
C16_AsStated == \A c \in CallSet : c.fresh

\* C16 amended: every destination used in a pass does not exist when the
\* extraction into it begins (an earlier run's destination is passed over
\* for a numbered one); the top-level destination is always
\* outdir/top.extracted, which exists by then and is used again by every run.
C16_PassDestinationsFresh ==
  \A c \in CallSet :
    /\ c.depth >= 1 => c.fresh /\ c.dest # Top
    /\ c.depth = 0 => ~c.fresh /\ c.dest = Top

C16_Witness ==
  \E c \in CallSet :
    /\ c.depth >= 1
    /\ c.dest = WithSuffix(Append(Parent(c.src), Append(NameOf(c.src), "gunzipped")), 1)
    /\ IsDir(fs, Append(Parent(c.src), Append(NameOf(c.src), "gunzipped")))


\* the files a call created or wrote
FileWrites(c) == {w.path : w \in {v \in c.wrote : v.t = "file"}}

\* C17 as stated: the run after an interrupted extraction extracts the
\* archive into the same destination and writes the very files the
\* interrupted run wrote.
C17_AsStated ==
  \A i, j \in 1..Len(calls) :
    (calls[i].cut /\ i < j /\ calls[j].src = calls[i].src)
      => /\ calls[j].dest = calls[i].dest
         /\ FileWrites(calls[j]) = FileWrites(calls[i])

\* C17 amended: an archive whose extraction was interrupted before its path
\* was logged is not in the set the next run loads, and the next run
\* processes it again (at the top level, or in pass 1 when max-depth >= 1);
\* the new extraction writes none of the paths the interrupted one wrote: in
\* a pass it goes into a fresh, numbered destination, at the top level
\* gunzip picks a numbered output name.
C17_RedoneInNewPlace ==
  \A i \in 1..Len(calls) :
    calls[i].cut =>
      /\ \A e \in EndsOf(calls[i].run + 1) :
           /\ Key(calls[i].src) \notin e.loaded
           /\ \/ calls[i].depth = 0 /\ e.code # 130
              \/ calls[i].depth >= 1 /\ e.code = 0 /\ e.maxDepth >= 1
              => \E j \in (i + 1)..Len(calls) :
                   calls[j].run = e.run /\ calls[j].src = calls[i].src
      /\ \A j \in (i + 1)..Len(calls) :
           /\ FileWrites(calls[j]) \cap PathsOf(calls[i]) = {}
           /\ (calls[j].src = calls[i].src /\ calls[i].depth >= 1)
                => calls[j].fresh /\ calls[j].dest # calls[i].dest

C17_Witness ==
  \E i, j \in 1..Len(calls) :
    /\ i < j
    /\ calls[i].cut
    /\ calls[i].depth >= 1
    /\ FileWrites(calls[i]) # {}
    /\ calls[j].src = calls[i].src
    /\ calls[j].dest = WithSuffix(calls[i].dest, 1)
    /\ calls[j].ok
    /\ ~calls[j].cut


PureApplied(fn) == pure.st = "applied" /\ pure.fn = fn

\* C18: unique_dir returns base when base does not exist, and otherwise
\* base.i for the smallest i >= 1 such that base.i does not exist; what it
\* returns never exists.
C18_UniqueDir ==
  PureApplied("unique_dir") =>
    LET held == DOMAIN pure.f
        r == pure.res
    IN /\ pure.base \notin held => r = pure.base
       /\ pure.base \in held =>
            \E i \in 1..(MaxTaken + 1) :
              /\ r = WithSuffix(pure.base, i)
              /\ \A h \in 1..(i - 1) : WithSuffix(pure.base, h) \in held
       /\ r \notin held

C18_Witness ==
  /\ PureApplied("unique_dir")
  /\ pure.base \in DOMAIN pure.f
  /\ WithSuffix(pure.base, 1) \in DOMAIN pure.f
  /\ WithSuffix(pure.base, 2) \notin DOMAIN pure.f
  /\ WithSuffix(pure.base, 3) \in DOMAIN pure.f
  /\ pure.res = WithSuffix(pure.base, 2)

\* C19: gunzip_to_file never overwrites: the output path it writes did not
\* exist before the call, and everything that existed before the call is
\* unchanged after it, for every source name and prior content of dest_dir.
C19_GunzipNeverOverwrites ==
  PureApplied("gunzip_to_file") =>
    /\ \A p \in DOMAIN pure.f :
         p \in DOMAIN pure.res.fs /\ pure.res.fs[p] = pure.f[p]
    /\ \A w \in pure.res.wrote : w.path \notin DOMAIN pure.f
    /\ Cardinality(FileWrites(pure.res)) = IF pure.res.why = "mkdir" THEN 0 ELSE 1
    /\ \A q \in DOMAIN pure.res.fs \ DOMAIN pure.f :
         \E w \in pure.res.wrote : w.path = q

C19_Witness ==
  /\ PureApplied("gunzip_to_file")
  /\ pure.name = <<"x", "gz">>
  /\ Append(GzDest, <<"x">>) \in DOMAIN pure.f
  /\ Append(GzDest, <<"x", "1">>) \in DOMAIN pure.f
  /\ FileWrites(pure.res) = {Append(GzDest, <<"x", "2">>)}
  /\ pure.res.ok

\* C20: the class of a path depends on its lowercased file name only: names
\* ending in .tar, .tgz or .tar.gz are TarLike, names ending in .gz but not
\* in .tar.gz are PlainGzip, every other name is Unsupported, and no name is
\* both TarLike and PlainGzip.
C20_Classify ==
  PureApplied("classify") =>
    LET n == LowerName(NameOf(pure.p))
        k == Len(n)
        dotTar == k >= 2 /\ n[k] = "tar"
        dotTgz == k >= 2 /\ n[k] = "tgz"
        dotGz == k >= 2 /\ n[k] = "gz"
        dotTarGz == k >= 3 /\ n[k] = "gz" /\ n[k - 1] = "tar"
    IN /\ pure.res.cls = "TarLike" <=> (dotTar \/ dotTgz \/ dotTarGz)
       /\ pure.res.cls = "PlainGzip" <=> (dotGz /\ ~dotTarGz)
       /\ pure.res.cls = "Unsupported" <=> ~(dotTar \/ dotTgz \/ dotGz)
       /\ pure.res.tar <=> pure.res.cls = "TarLike"
       /\ pure.res.gz <=> pure.res.cls = "PlainGzip"
       /\ ~(pure.res.tar /\ pure.res.gz)
       /\ pure.res.lowered = pure.res.cls

C20_Witness ==
  /\ PureApplied("classify")
  /\ NameOf(pure.p) = <<"x", "TAR", "Gz">>
  /\ pure.res.cls = "TarLike"
  /\ ~pure.res.gz


\* C21 as stated: with and without --quiet a step of a run ends the same
\* way (same success or failure, same files written), so that two runs from
\* one file-system state end with the same exit status, files and log.
C21_AsStated ==
  \A c \in CallSet : \A s \in BOOLEAN : c.quiet[s] = c.loud[s]


\* what is left of a run: the passes it may still begin, whether the scan of
\* the current pass is still to come, the candidates still to go over
Left ==
  LET passes == IF maxDepth > 0 THEN maxDepth ELSE 0
  IN CASE pc = "top" -> <<passes + 2, 0, 0>>
       [] pc = "pass" -> <<passes + 1 - depth, 1, 0>>
       [] pc = "work" -> <<passes + 1 - depth, 0, Cardinality(cands)>>
       [] OTHER -> <<-1, 0, 0>>

\* a comes before b in the lexicographic order
Less(a, b) ==
  \/ a[1] < b[1]
  \/ a[1] = b[1] /\ a[2] < b[2]
  \/ a[1] = b[1] /\ a[2] = b[2] /\ a[3] < b[3]

\* C22: a run executes the passes 1, 2, ... in order, goes into a next pass
\* only when the pass before did work, never executes a pass beyond
\* max-depth (none when max-depth <= 0), and ends: every step of a run
\* takes from what is left of it, which is bounded from below.
C22_PassesBoundedAndRunEnds ==
  /\ [](pc = "work" => depth >= 1 /\ depth <= maxDepth)
  /\ []((pc \in {"pass", "work"} /\ depth >= 2)
          => \E c \in CallSet : c.run = runs /\ c.depth = depth - 1)
  /\ [](\A c \in CallSet : \A e \in EndsOf(c.run) :
          c.depth = 0 \/ c.depth <= e.maxDepth)
  /\ [][pc # "idle" => depth' \in {depth, depth + 1, 0}]_vars
  /\ [][pc # "idle" => Less(Left', Left)]_vars
  /\ [](Left[1] >= -1 /\ Left[2] >= 0 /\ Left[3] >= 0)

C22_Witness ==
  /\ IsGzChain(3)
  /\ Len(finals) = 1
  /\ finals[1].maxDepth = 1
  /\ finals[1].code = 0
  /\ ~finals[1].fixpoint
  /\ finals[1].ncalls = 2


\* C23: the passes are breadth-first: a file that a step of a run wrote is
\* processed by a later step of a later pass of that run, never in the pass
\* that wrote it (the top-level step counts as pass 0).
C23_BreadthFirst ==
  \A i, j \in 1..Len(calls) :
    (calls[i].run = calls[j].run /\ calls[j].src \in FileWrites(calls[i])) =>
      i < j /\ calls[j].depth >= calls[i].depth + 1

C23_Witness ==
  \E i, j \in 1..Len(calls) :
    /\ calls[i].run = calls[j].run
    /\ calls[i].depth >= 1
    /\ calls[j].src \in FileWrites(calls[i])
    /\ calls[j].depth = calls[i].depth + 1
    /\ calls[j].ok

\* C24 as stated: between two steps of a run the lines of the completion log
\* are the completion set in memory, and a run loads from the log the set
\* the run before it ended with.
C24_AsStated ==
  /\ pc \in {"pass", "work"} => load_done(fs, StateFile) = done
  /\ \A i \in 2..Len(finals) :
       finals[i - 1].code # 1 => finals[i].loaded = finals[i - 1].done

\* C25 as stated: whatever the name of the gzip source (the name ".gz"
\* included) and whatever destDir held before, the file gunzip_to_file
\* writes is a direct child of destDir.
C25_AsStated ==
  PureApplied("gunzip_to_file") =>
    \A p \in FileWrites(pure.res) : Parent(p) = pure.dest

\* C26 as stated: a tar whose member paths all pass validation and that
\* holds link, device or fifo members is extracted without error, and every
\* regular-file and directory member of it is on disk inside destDir.
C26_AsStated ==
  \A c \in CallSet :
    LET ms == MembersOf(fs[c.src].c)
    IN (/\ c.kind = "tar"
        /\ Readable(fs[c.src].c)
        /\ ~c.bad
        /\ \E i \in 1..Len(ms) : ms[i].type \in SpecialTypes)
       => /\ c.ok
          /\ \A i \in 1..Len(ms) :
               ms[i].type \in {"reg", "dir"} =>
                 /\ Lands(c.dest, ms[i].name) \in DOMAIN fs
                 /\ Within(c.dest, Lands(c.dest, ms[i].name))

\* The write loop of an archive that passed validation never gets to the
\* second safe_member_path call of line 75, the case C27 is about: a special
\* member leaves the iteration at line 72, and for any other member line 69
\* raises before line 75, so that such an archive fails and writes nothing.
WriteLoopStopsBeforeLine75 ==
  \A c \in CallSet :
    LET ms == MembersOf(fs[c.src].c)
    IN (c.kind = "tar" /\ Readable(fs[c.src].c) /\ ~c.bad /\ c.why # "mkdir") =>
         /\ MemberWrites(c) = {}
         /\ (\E i \in 1..Len(ms) : ms[i].type \notin SpecialTypes)
              => c.why = "AttributeError"
         /\ (\A i \in 1..Len(ms) : ms[i].type \in SpecialTypes) => c.ok

\* the regular files below the output directory whose lowercased name ends
\* in .tar, .tgz, .tar.gz or .gz
ArchiveFiles ==
  {p \in DOMAIN fs :
     /\ fs[p].t = "file"
     /\ Len(p) > Len(OutDir)
     /\ SubSeq(p, 1, Len(OutDir)) = OutDir
     /\ Len(NameOf(p)) >= 2
     /\ LowerName(NameOf(p))[Len(NameOf(p))] \in {"tar", "tgz", "gz"}}

\* the last run has ended because a pass found no new work
AtFixpoint ==
  /\ pc = "idle"
  /\ Len(finals) >= 1
  /\ finals[Len(finals)].fixpoint

\* C28: when a run exits 0 because a pass found no new work, every regular
\* file under the output directory with an archive suffix is classified
\* TarLike or PlainGzip and is in the completion set the run ended with.
C28_FixpointAllMarked ==
  AtFixpoint =>
    /\ finals[Len(finals)].code = 0
    /\ \A p \in ArchiveFiles :
         /\ Classify(p) \in {"TarLike", "PlainGzip"}
         /\ Key(p) \in finals[Len(finals)].done

C28_Witness ==
  /\ AtFixpoint
  /\ \E p, q \in ArchiveFiles :
       /\ Classify(p) = "TarLike"
       /\ Classify(q) = "PlainGzip"
       /\ Len(q) > Len(p)
  /\ \E c \in CallSet : c.run = finals[Len(finals)].run /\ c.depth >= 2

\* C29 as stated: expand_object_group ends and returns a list for every map
\* of groups, also when the groups name each other, or themselves, in
\* group-object lines.
C29_AsStated ==
  pure.fn = "expand_object_group" => pure.st \in {"expanding", "returned"}

\* C30 as stated: every "object network NAME" or "object service NAME"
\* line of the configuration is an entry objects[NAME] of what
\* parse_asa_config returns, wherever the line stands, and no such line is
\* a member line of an object-group.
C30_AsStated ==
  (pure.fn = "parse_asa_config" /\ pure.st = "parsed") =>
    /\ \A i \in 1..Len(pure.lines) :
         ObjMatch(pure.lines[i]) => pure.lines[i][3] \in DOMAIN pure.objects
    /\ \A g \in DOMAIN pure.object_groups :
         \A j \in 1..Len(pure.object_groups[g]) : ~ObjMatch(pure.object_groups[g][j])

====
